---- MODULE Spec2Model ----
(***************************************************************************)
(* Class Table Inheritance over an entity-component store.                 *)
(*                                                                         *)
(* The model follows src/src/pet_module/pet_state.rs (the gateway          *)
(* PetState over a specs World), src/src/pet_module.rs (the composed       *)
(* records Dog, Cat and the enum Mammal) and the older copy of the gateway *)
(* in src/pet_module/pet_state.rs, whose add_dog / add_cat use the         *)
(* constant identifier "1234".                                             *)
(*                                                                         *)
(* A World is a record [next, storage]: `next` is the index the entity     *)
(* allocator hands out next (no entity is ever deleted, so indices are     *)
(* 0, 1, 2, ...), `storage` maps every registered component kind to its    *)
(* table, a function from entity index to component value.                 *)
(***************************************************************************)
EXTENDS Integers, Sequences, FiniteSets, TLC

VARIABLES
    ps,        \* the PetState owned by the caller: [ecs |-> World]
    call,      \* the last call made: [op |-> name, arg |-> its argument]
    ret,       \* what the last call returned
    created,   \* the creation calls made so far, with what each returned
    panicked   \* TRUE once a call hit an unregistered component kind

vars == <<ps, call, ret, created, panicked>>

----------------------------------------------------------------------------
(* Bounds and inputs *)

\* Most records created in one run.
MaxPets == 3

\* The strings Uuid::new_v4().to_string() can return.  A version-4 UUID is
\* 122 random bits: any value can be drawn, also one drawn before.
Uuid_new_v4 == {"uuid-a", "uuid-b"}

\* The identifier of the older add_dog / add_cat.
LegacyUuid == "1234"

\* Arguments of Dog::create, two that differ in every field; tail_length is
\* in tenths (20 is 2.0).
DogInputs ==
    { [name |-> "Waterloo", hair_color |-> "blond", breed |-> "labrador",
       has_hair |-> TRUE, tail_length |-> 120, num_commands_known |-> 4],
      [name |-> "Sophie", hair_color |-> "Blond", breed |-> "schnauzer",
       has_hair |-> FALSE, tail_length |-> 20, num_commands_known |-> 56] }

\* Arguments of Cat::create, two that differ in every field.
CatInputs ==
    { [name |-> "Berlioz", hair_color |-> "black", breed |-> "shorthair",
       has_hair |-> TRUE, declawed |-> TRUE, sits_on_keyboard |-> FALSE],
      [name |-> "Mittens", hair_color |-> "Blond", breed |-> "persian",
       has_hair |-> FALSE, declawed |-> FALSE, sits_on_keyboard |-> TRUE] }

\* Arguments of get_mammals_by_hair_color: stored colours, a colour that
\* differs from a stored one by case only, and one nobody has.
HairColorArgs == {"blond", "Blond", "black", "golden"}

\* Arguments of get_dog_by_id: every uuid that can be issued, the decimal
\* form of the first entity index, and a string that is no uuid.
UuidArgs == Uuid_new_v4 \cup {"0", "no-such-uuid"}

----------------------------------------------------------------------------
(* The entity-component store as the gateway uses it *)

PetKind == "PetComponent"
MammalKind == "MammalComponent"
ReptileKind == "ReptileComponent"
DogKind == "DogComponent"
CatKind == "CatComponent"
TurtleKind == "TurtleComponent"
SnakeKind == "SnakeComponent"

EmptyTable == [e \in {} |-> {}]

\* World::new(): no entity, no component kind registered.
World_new == [next |-> 0, storage |-> [k \in {} |-> EmptyTable]]

\* World::register::<T>(): adds an empty table for T unless T has one.
register(w, kind) ==
    IF kind \in DOMAIN w.storage
    THEN w
    ELSE [w EXCEPT !.storage = [k \in DOMAIN w.storage \cup {kind} |->
                                   IF k = kind THEN EmptyTable ELSE w.storage[k]]]

\* create_entity whose allocator hands out the same index again.
create_entity_reuses_index(w) ==
    [world |-> w, entity |-> w.next, panic |-> FALSE]

\* World::create_entity(): a builder on a freshly allocated entity index.
create_entity(w) ==
    [world |-> [w EXCEPT !.next = w.next + 1], entity |-> w.next, panic |-> FALSE]

\* with that replaces the table of the kind by one that holds the builder's
\* entity only.
with_replaces_table(b, kind, c) ==
    IF kind \in DOMAIN b.world.storage
    THEN [b EXCEPT !.world.storage[kind] = [e \in {b.entity} |-> c]]
    ELSE [b EXCEPT !.panic = TRUE]

\* EntityBuilder::with(c): inserts c into the table of its kind under the
\* builder's entity; panics when the kind was never registered.
with(b, kind, c) ==
    IF kind \in DOMAIN b.world.storage
    THEN [b EXCEPT !.world.storage[kind] =
             [e \in DOMAIN b.world.storage[kind] \cup {b.entity} |->
                 IF e = b.entity THEN c ELSE b.world.storage[kind][e]]]
    ELSE [b EXCEPT !.panic = TRUE]

\* EntityBuilder::build(): the world with the entity and its components.
build(b) == b

\* World::read_storage::<T>() (it panics when T was never registered: see
\* fetch_panics).
read_storage(w, kind) ==
    IF kind \in DOMAIN w.storage THEN w.storage[kind] ELSE EmptyTable

fetch_panics(w, kinds) == \E k \in kinds : k \notin DOMAIN w.storage

RECURSIVE Ascending(_)
Ascending(S) ==
    IF S = {} THEN <<>>
    ELSE LET m == CHOOSE x \in S : \A y \in S : x <= y
         IN  <<m>> \o Ascending(S \ {m})

\* join that starts after the first entity it should yield.
join_skips_first(a, b, c) ==
    LET up == Ascending((DOMAIN a \cap DOMAIN b) \cap DOMAIN c)
    IN  IF up = <<>> THEN <<>> ELSE Tail(up)

\* join that walks the entities from the highest index down.
join_descending(a, b, c) ==
    LET up == Ascending((DOMAIN a \cap DOMAIN b) \cap DOMAIN c)
    IN  [i \in 1..Len(up) |-> up[Len(up) + 1 - i]]

\* (&a, &b, &c).join(): the entities that hold a component in each of the
\* three tables, by ascending entity index.
join(a, b, c) == Ascending((DOMAIN a \cap DOMAIN b) \cap DOMAIN c)

----------------------------------------------------------------------------
(* Components and the composed records *)

PetComponent(uuid, name) == [uuid |-> uuid, name |-> name]

MammalComponent(hair_color, breed, has_hair) ==
    [hair_color |-> hair_color, breed |-> breed, has_hair |-> has_hair]

DogComponent(tail_length, num_commands_known) ==
    [tail_length |-> tail_length, num_commands_known |-> num_commands_known]

CatComponent(declawed, sits_on_keyboard) ==
    [declawed |-> declawed, sits_on_keyboard |-> sits_on_keyboard]

\* impl From<&PetComponent> for PetData
PetData_from(comp) == [uuid |-> comp.uuid, name |-> comp.name]

\* impl From<&MammalComponent> for MammalData
MammalData_from(comp) ==
    [hair_color |-> comp.hair_color, breed |-> comp.breed, has_hair |-> comp.has_hair]

\* impl From<&DogComponent> for DogData
DogData_from(comp) ==
    [tail_length |-> comp.tail_length, num_commands_known |-> comp.num_commands_known]

\* impl From<&CatComponent> for CatData
CatData_from(comp) ==
    [declawed |-> comp.declawed, sits_on_keyboard |-> comp.sits_on_keyboard]

Dog(pet, mammal, dog_specific) ==
    [pet |-> pet, mammal |-> mammal, dog_specific |-> dog_specific]

Cat(pet, mammal, cat_specific) ==
    [pet |-> pet, mammal |-> mammal, cat_specific |-> cat_specific]

\* enum Mammal { Dog(Dog), Cat(Cat) }
Mammal_Dog(d) == [variant |-> "Dog", value |-> d]
Mammal_Cat(c) == [variant |-> "Cat", value |-> c]

\* Option<Dog>
None == [tag |-> "None"]
Some(v) == [tag |-> "Some", value |-> v]

\* Mammal::pet_data, Mammal::mammal_data: both variants keep the data in
\* the same field.
pet_data(m) == m.value.pet
mammal_data(m) == m.value.mammal

\* Mammal::uuid
Mammal_uuid(m) == pet_data(m).uuid

\* Mammal::name, Mammal::hair_color
Mammal_name(m) == pet_data(m).name
Mammal_hair_color(m) == mammal_data(m).hair_color

\* make_sound that answers "Woof!" in both arms of the match.
make_sound_always_woof(m) == "Woof!"

\* Mammal::make_sound
make_sound(m) ==
    CASE m.variant = "Dog" -> "Woof!"
      [] m.variant = "Cat" -> "Meow!"

\* Mammal::is_dog
is_dog(m) == m.variant = "Dog"

\* is_cat that matches on Mammal::Dog, as is_dog does.
is_cat_matches_dog(m) == m.variant = "Dog"

\* Mammal::is_cat
is_cat(m) == m.variant = "Cat"

\* Mammal::as_dog, Mammal::as_cat -> Option<&Dog>, Option<&Cat>
as_dog(m) == IF m.variant = "Dog" THEN Some(m.value) ELSE None
as_cat(m) == IF m.variant = "Cat" THEN Some(m.value) ELSE None

----------------------------------------------------------------------------
(* The gateway PetState *)

\* new that does not register CatComponent.
PetState_new_forgets_cat ==
    LET w0 == World_new
        w1 == register(w0, PetKind)
        w2 == register(w1, MammalKind)
        w3 == register(w2, ReptileKind)
        w4 == register(w3, DogKind)
        w6 == register(w4, TurtleKind)
        w7 == register(w6, SnakeKind)
    IN  [ecs |-> w7]

\* PetState::new()
PetState_new ==
    LET w0 == World_new
        w1 == register(w0, PetKind)
        w2 == register(w1, MammalKind)
        w3 == register(w2, ReptileKind)
        w4 == register(w3, DogKind)
        w5 == register(w4, CatKind)
        w6 == register(w5, TurtleKind)
        w7 == register(w6, SnakeKind)
    IN  [ecs |-> w7]

\* impl Default for PetState
PetState_default == PetState_new

\* add_dog that kept the CatComponent line of add_cat next to its own.
add_dog_also_cat(self, uuid, name, hair_color, breed, has_hair, tail_length, num_commands_known) ==
    LET b0 == create_entity(self.ecs)
        b1 == with(b0, PetKind, PetComponent(uuid, name))
        b2 == with(b1, MammalKind, MammalComponent(hair_color, breed, has_hair))
        b3 == with(b2, DogKind, DogComponent(tail_length, num_commands_known))
        b4 == build(with(b3, CatKind, CatComponent(FALSE, FALSE)))
    IN  [ps |-> [self EXCEPT !.ecs = b4.world], ret |-> uuid, panic |-> b4.panic]

\* add_dog that does not attach the MammalComponent.
add_dog_without_mammal(self, uuid, name, hair_color, breed, has_hair, tail_length, num_commands_known) ==
    LET b0 == create_entity(self.ecs)
        b1 == with(b0, PetKind, PetComponent(uuid, name))
        b3 == with(b1, DogKind, DogComponent(tail_length, num_commands_known))
        b4 == build(b3)
    IN  [ps |-> [self EXCEPT !.ecs = b4.world], ret |-> uuid, panic |-> b4.panic]

\* add_dog that stores breed as hair_color and hair_color as breed.
add_dog_swaps_breed(self, uuid, name, hair_color, breed, has_hair, tail_length, num_commands_known) ==
    LET b0 == create_entity(self.ecs)
        b1 == with(b0, PetKind, PetComponent(uuid, name))
        b2 == with(b1, MammalKind, MammalComponent(breed, hair_color, has_hair))
        b3 == with(b2, DogKind, DogComponent(tail_length, num_commands_known))
        b4 == build(b3)
    IN  [ps |-> [self EXCEPT !.ecs = b4.world], ret |-> uuid, panic |-> b4.panic]

\* add_dog that returns the name in place of the uuid it stored.
add_dog_returns_name(self, uuid, name, hair_color, breed, has_hair, tail_length, num_commands_known) ==
    LET b0 == create_entity(self.ecs)
        b1 == with(b0, PetKind, PetComponent(uuid, name))
        b2 == with(b1, MammalKind, MammalComponent(hair_color, breed, has_hair))
        b3 == with(b2, DogKind, DogComponent(tail_length, num_commands_known))
        b4 == build(b3)
    IN  [ps |-> [self EXCEPT !.ecs = b4.world], ret |-> name, panic |-> b4.panic]

\* PetState::add_dog(&mut self, ...) -> String, with the uuid that
\* Uuid::new_v4() drew: the state after the call, the value returned, and
\* whether the call panicked.
add_dog(self, uuid, name, hair_color, breed, has_hair, tail_length, num_commands_known) ==
    LET b0 == create_entity(self.ecs)
        b1 == with(b0, PetKind, PetComponent(uuid, name))
        b2 == with(b1, MammalKind, MammalComponent(hair_color, breed, has_hair))
        b3 == with(b2, DogKind, DogComponent(tail_length, num_commands_known))
        b4 == build(b3)
    IN  [ps |-> [self EXCEPT !.ecs = b4.world], ret |-> uuid, panic |-> b4.panic]

\* add_cat that also writes its name into the PetComponent of every entity
\* that holds a DogComponent.
add_cat_renames_dogs(self, uuid, name, hair_color, breed, has_hair, declawed, sits_on_keyboard) ==
    LET b0 == create_entity(self.ecs)
        b1 == with(b0, PetKind, PetComponent(uuid, name))
        b2 == with(b1, MammalKind, MammalComponent(hair_color, breed, has_hair))
        b3 == with(b2, CatKind, CatComponent(declawed, sits_on_keyboard))
        b4 == build(b3)
        pets == b4.world.storage[PetKind]
        dogs == b4.world.storage[DogKind]
        renamed == [e \in DOMAIN pets |->
                       IF e \in DOMAIN dogs
                       THEN PetComponent(pets[e].uuid, name)
                       ELSE pets[e]]
    IN  [ps |-> [self EXCEPT !.ecs = [b4.world EXCEPT !.storage[PetKind] = renamed]],
         ret |-> uuid, panic |-> b4.panic]

\* add_cat that builds the entity before the CatComponent is attached.
add_cat_builds_early(self, uuid, name, hair_color, breed, has_hair, declawed, sits_on_keyboard) ==
    LET b0 == create_entity(self.ecs)
        b1 == with(b0, PetKind, PetComponent(uuid, name))
        b2 == with(b1, MammalKind, MammalComponent(hair_color, breed, has_hair))
        b4 == build(b2)
    IN  [ps |-> [self EXCEPT !.ecs = b4.world], ret |-> uuid, panic |-> b4.panic]

\* add_cat that kept the DogComponent line of add_dog next to its own.
add_cat_also_dog(self, uuid, name, hair_color, breed, has_hair, declawed, sits_on_keyboard) ==
    LET b0 == create_entity(self.ecs)
        b1 == with(b0, PetKind, PetComponent(uuid, name))
        b2 == with(b1, MammalKind, MammalComponent(hair_color, breed, has_hair))
        b3 == with(b2, DogKind, DogComponent(0, 0))
        b4 == with(b3, CatKind, CatComponent(declawed, sits_on_keyboard))
    IN  [ps |-> [self EXCEPT !.ecs = build(b4).world], ret |-> uuid, panic |-> b4.panic]

\* add_cat that stores sits_on_keyboard as declawed and declawed as
\* sits_on_keyboard.
add_cat_swaps_flags(self, uuid, name, hair_color, breed, has_hair, declawed, sits_on_keyboard) ==
    LET b0 == create_entity(self.ecs)
        b1 == with(b0, PetKind, PetComponent(uuid, name))
        b2 == with(b1, MammalKind, MammalComponent(hair_color, breed, has_hair))
        b3 == with(b2, CatKind, CatComponent(sits_on_keyboard, declawed))
        b4 == build(b3)
    IN  [ps |-> [self EXCEPT !.ecs = b4.world], ret |-> uuid, panic |-> b4.panic]

\* PetState::add_cat(&mut self, ...) -> String
add_cat(self, uuid, name, hair_color, breed, has_hair, declawed, sits_on_keyboard) ==
    LET b0 == create_entity(self.ecs)
        b1 == with(b0, PetKind, PetComponent(uuid, name))
        b2 == with(b1, MammalKind, MammalComponent(hair_color, breed, has_hair))
        b3 == with(b2, CatKind, CatComponent(declawed, sits_on_keyboard))
        b4 == build(b3)
    IN  [ps |-> [self EXCEPT !.ecs = b4.world], ret |-> uuid, panic |-> b4.panic]

\* Dog::create that hands its arguments to add_dog twice.
Dog_create_twice(self, uuid, in) ==
    LET r0 == add_dog(self, uuid, in.name, in.hair_color, in.breed, in.has_hair,
                      in.tail_length, in.num_commands_known)
        r == add_dog(r0.ps, uuid, in.name, in.hair_color, in.breed, in.has_hair,
                     in.tail_length, in.num_commands_known)
    IN  [ps |-> r.ps, id |-> r.ret, panic |-> r0.panic \/ r.panic]

\* Dog::create(ps, ...) -> (PetState, String)
Dog_create(self, uuid, in) ==
    LET r == add_dog(self, uuid, in.name, in.hair_color, in.breed, in.has_hair,
                     in.tail_length, in.num_commands_known)
    IN  [ps |-> r.ps, id |-> r.ret, panic |-> r.panic]

\* Cat::create(ps, ...) -> (PetState, String)
Cat_create(self, uuid, in) ==
    LET r == add_cat(self, uuid, in.name, in.hair_color, in.breed, in.has_hair,
                     in.declawed, in.sits_on_keyboard)
    IN  [ps |-> r.ps, id |-> r.ret, panic |-> r.panic]

\* PetState::get_all_dogs(&self) -> Vec<Dog>
get_all_dogs(self) ==
    LET fetched_dogs == read_storage(self.ecs, DogKind)
        fetched_pets == read_storage(self.ecs, PetKind)
        fetched_mammals == read_storage(self.ecs, MammalKind)
        ids == join(fetched_dogs, fetched_mammals, fetched_pets)
    IN  [i \in 1..Len(ids) |->
            Dog(PetData_from(fetched_pets[ids[i]]),
                MammalData_from(fetched_mammals[ids[i]]),
                DogData_from(fetched_dogs[ids[i]]))]

\* PetState::get_all_cats(&self) -> Vec<Cat>
get_all_cats(self) ==
    LET fetched_cats == read_storage(self.ecs, CatKind)
        fetched_pets == read_storage(self.ecs, PetKind)
        fetched_mammals == read_storage(self.ecs, MammalKind)
        ids == join(fetched_cats, fetched_mammals, fetched_pets)
    IN  [i \in 1..Len(ids) |->
            Cat(PetData_from(fetched_pets[ids[i]]),
                MammalData_from(fetched_mammals[ids[i]]),
                CatData_from(fetched_cats[ids[i]]))]

\* get_all_mammals that forgets the cats.
get_all_mammals_dogs_only(self) ==
    LET dogs == get_all_dogs(self)
    IN  [i \in 1..Len(dogs) |-> Mammal_Dog(dogs[i])]

\* get_all_mammals that chains the dogs after the cats.
get_all_mammals_cats_first(self) ==
    LET dogs == get_all_dogs(self)
        cats == get_all_cats(self)
    IN  [j \in 1..Len(cats) |-> Mammal_Cat(cats[j])]
            \o [i \in 1..Len(dogs) |-> Mammal_Dog(dogs[i])]

\* PetState::get_all_mammals(&self) -> Vec<Mammal>
get_all_mammals(self) ==
    LET dogs == get_all_dogs(self)
        cats == get_all_cats(self)
    IN  [i \in 1..Len(dogs) |-> Mammal_Dog(dogs[i])]
            \o [j \in 1..Len(cats) |-> Mammal_Cat(cats[j])]

\* ASCII lower case of the colours in use ("Blond" is the only one with an
\* upper-case letter).
to_lowercase(s) == IF s = "Blond" THEN "blond" ELSE s

\* get_mammals_by_hair_color that compares ignoring case.
get_mammals_by_hair_color_nocase(self, hair_color) ==
    LET keep(m) == to_lowercase(mammal_data(m).hair_color) = to_lowercase(hair_color)
    IN  SelectSeq(get_all_mammals(self), keep)

\* PetState::get_mammals_by_hair_color(&self, hair_color) -> Vec<Mammal>
get_mammals_by_hair_color(self, hair_color) ==
    LET keep(m) == mammal_data(m).hair_color = hair_color
    IN  SelectSeq(get_all_mammals(self), keep)

\* get_dog_by_id that walks the whole join and keeps the last match.
get_dog_by_id_last_match(self, uuid) ==
    LET fetched_dogs == read_storage(self.ecs, DogKind)
        fetched_pets == read_storage(self.ecs, PetKind)
        fetched_mammals == read_storage(self.ecs, MammalKind)
        ids == join(fetched_dogs, fetched_mammals, fetched_pets)
        hits == {i \in 1..Len(ids) : fetched_pets[ids[i]].uuid = uuid}
    IN  IF hits = {}
        THEN None
        ELSE LET last == CHOOSE i \in hits : \A j \in hits : i >= j
             IN  Some(Dog(PetData_from(fetched_pets[ids[last]]),
                          MammalData_from(fetched_mammals[ids[last]]),
                          DogData_from(fetched_dogs[ids[last]])))

\* get_dog_by_id that compares the argument with the name.
get_dog_by_id_by_name(self, uuid) ==
    LET fetched_dogs == read_storage(self.ecs, DogKind)
        fetched_pets == read_storage(self.ecs, PetKind)
        fetched_mammals == read_storage(self.ecs, MammalKind)
        ids == join(fetched_dogs, fetched_mammals, fetched_pets)
        hits == {i \in 1..Len(ids) : fetched_pets[ids[i]].name = uuid}
    IN  IF hits = {}
        THEN None
        ELSE LET first == CHOOSE i \in hits : \A j \in hits : i <= j
             IN  Some(Dog(PetData_from(fetched_pets[ids[first]]),
                          MammalData_from(fetched_mammals[ids[first]]),
                          DogData_from(fetched_dogs[ids[first]])))

\* get_dog_by_id whose test is negated: the first dog with another uuid.
get_dog_by_id_negated(self, uuid) ==
    LET fetched_dogs == read_storage(self.ecs, DogKind)
        fetched_pets == read_storage(self.ecs, PetKind)
        fetched_mammals == read_storage(self.ecs, MammalKind)
        ids == join(fetched_dogs, fetched_mammals, fetched_pets)
        hits == {i \in 1..Len(ids) : fetched_pets[ids[i]].uuid # uuid}
    IN  IF hits = {}
        THEN None
        ELSE LET first == CHOOSE i \in hits : \A j \in hits : i <= j
             IN  Some(Dog(PetData_from(fetched_pets[ids[first]]),
                          MammalData_from(fetched_mammals[ids[first]]),
                          DogData_from(fetched_dogs[ids[first]])))

\* PetState::get_dog_by_id(&self, uuid) -> Option<Dog>: the first entity of
\* the join whose PetComponent carries the uuid.
get_dog_by_id(self, uuid) ==
    LET fetched_dogs == read_storage(self.ecs, DogKind)
        fetched_pets == read_storage(self.ecs, PetKind)
        fetched_mammals == read_storage(self.ecs, MammalKind)
        ids == join(fetched_dogs, fetched_mammals, fetched_pets)
        hits == {i \in 1..Len(ids) : fetched_pets[ids[i]].uuid = uuid}
    IN  IF hits = {}
        THEN None
        ELSE LET first == CHOOSE i \in hits : \A j \in hits : i <= j
             IN  Some(Dog(PetData_from(fetched_pets[ids[first]]),
                          MammalData_from(fetched_mammals[ids[first]]),
                          DogData_from(fetched_dogs[ids[first]])))

\* The storages a query reads.
DogQueryKinds == {DogKind, PetKind, MammalKind}
CatQueryKinds == {CatKind, PetKind, MammalKind}

----------------------------------------------------------------------------
(* The older gateway, src/pet_module/pet_state.rs *)

\* add_dog of the older gateway: the uuid is the constant "1234".
legacy_add_dog(self, name, hair_color, breed, has_hair, tail_length, num_commands_known) ==
    LET uuid == LegacyUuid
        b0 == create_entity(self.ecs)
        b1 == with(b0, PetKind, PetComponent(uuid, name))
        b2 == with(b1, MammalKind, MammalComponent(hair_color, breed, has_hair))
        b3 == with(b2, DogKind, DogComponent(tail_length, num_commands_known))
        b4 == build(b3)
    IN  [ps |-> [self EXCEPT !.ecs = b4.world], ret |-> uuid, panic |-> b4.panic]

\* add_cat of the older gateway.
legacy_add_cat(self, name, hair_color, breed, has_hair, declawed, sits_on_keyboard) ==
    LET uuid == LegacyUuid
        b0 == create_entity(self.ecs)
        b1 == with(b0, PetKind, PetComponent(uuid, name))
        b2 == with(b1, MammalKind, MammalComponent(hair_color, breed, has_hair))
        b3 == with(b2, CatKind, CatComponent(declawed, sits_on_keyboard))
        b4 == build(b3)
    IN  [ps |-> [self EXCEPT !.ecs = b4.world], ret |-> uuid, panic |-> b4.panic]

\* Dog::new and Cat::new of the older pet_module.rs.
legacy_Dog_new(self, in) ==
    LET r == legacy_add_dog(self, in.name, in.hair_color, in.breed, in.has_hair,
                            in.tail_length, in.num_commands_known)
    IN  [ps |-> r.ps, id |-> r.ret, panic |-> r.panic]

legacy_Cat_new(self, in) ==
    LET r == legacy_add_cat(self, in.name, in.hair_color, in.breed, in.has_hair,
                            in.declawed, in.sits_on_keyboard)
    IN  [ps |-> r.ps, id |-> r.ret, panic |-> r.panic]

\* get_all_dogs of the older gateway: the older Dog is one flat record.
legacy_get_all_dogs(self) ==
    LET fetched_dogs == read_storage(self.ecs, DogKind)
        fetched_pets == read_storage(self.ecs, PetKind)
        fetched_mammals == read_storage(self.ecs, MammalKind)
        ids == join(fetched_dogs, fetched_mammals, fetched_pets)
    IN  [i \in 1..Len(ids) |->
            [uuid |-> fetched_pets[ids[i]].uuid,
             name |-> fetched_pets[ids[i]].name,
             hair_color |-> fetched_mammals[ids[i]].hair_color,
             breed |-> fetched_mammals[ids[i]].breed,
             has_hair |-> fetched_mammals[ids[i]].has_hair,
             tail_length |-> fetched_dogs[ids[i]].tail_length,
             num_commands_known |-> fetched_dogs[ids[i]].num_commands_known]]

----------------------------------------------------------------------------
(* Behaviours *)

NoArg == "-"

Init ==
    /\ ps \in {PetState_new, PetState_default}
    /\ call = [op |-> "PetState::new", arg |-> NoArg]
    /\ ret = NoArg
    /\ created = <<>>
    /\ panicked = FALSE

\* let (ps, id) = Dog::create(ps, ...)
DogCreate ==
    /\ ~panicked
    /\ Len(created) < MaxPets
    /\ \E in \in DogInputs, uuid \in Uuid_new_v4 :
          LET r == Dog_create(ps, uuid, in)
          IN  /\ ps' = r.ps
              /\ ret' = r.id
              /\ panicked' = r.panic
              /\ call' = [op |-> "Dog::create", arg |-> in]
              /\ created' = Append(created, [kind |-> "Dog", input |-> in, uuid |-> r.id])

\* let (ps, id) = Cat::create(ps, ...)
CatCreate ==
    /\ ~panicked
    /\ Len(created) < MaxPets
    /\ \E in \in CatInputs, uuid \in Uuid_new_v4 :
          LET r == Cat_create(ps, uuid, in)
          IN  /\ ps' = r.ps
              /\ ret' = r.id
              /\ panicked' = r.panic
              /\ call' = [op |-> "Cat::create", arg |-> in]
              /\ created' = Append(created, [kind |-> "Cat", input |-> in, uuid |-> r.id])

\* ps.get_all_dogs()
GetAllDogs ==
    /\ ~panicked
    /\ call' = [op |-> "get_all_dogs", arg |-> NoArg]
    /\ panicked' = fetch_panics(ps.ecs, DogQueryKinds)
    /\ ret' = get_all_dogs(ps)
    /\ UNCHANGED <<ps, created>>

\* get_all_cats that takes the CatComponents out of their table.
GetAllCats_drains ==
    /\ ~panicked
    /\ call' = [op |-> "get_all_cats", arg |-> NoArg]
    /\ panicked' = fetch_panics(ps.ecs, CatQueryKinds)
    /\ ret' = get_all_cats(ps)
    /\ ps' = [ps EXCEPT !.ecs.storage[CatKind] = EmptyTable]
    /\ UNCHANGED created

\* ps.get_all_cats()
GetAllCats ==
    /\ ~panicked
    /\ call' = [op |-> "get_all_cats", arg |-> NoArg]
    /\ panicked' = fetch_panics(ps.ecs, CatQueryKinds)
    /\ ret' = get_all_cats(ps)
    /\ UNCHANGED <<ps, created>>

\* ps.get_all_mammals()
GetAllMammals ==
    /\ ~panicked
    /\ call' = [op |-> "get_all_mammals", arg |-> NoArg]
    /\ panicked' = fetch_panics(ps.ecs, DogQueryKinds \cup CatQueryKinds)
    /\ ret' = get_all_mammals(ps)
    /\ UNCHANGED <<ps, created>>

\* ps.get_mammals_by_hair_color(c)
GetMammalsByHairColor ==
    /\ ~panicked
    /\ \E c \in HairColorArgs :
          /\ call' = [op |-> "get_mammals_by_hair_color", arg |-> c]
          /\ ret' = get_mammals_by_hair_color(ps, c)
    /\ panicked' = fetch_panics(ps.ecs, DogQueryKinds \cup CatQueryKinds)
    /\ UNCHANGED <<ps, created>>

\* ps.get_dog_by_id(u)
GetDogById ==
    /\ ~panicked
    /\ \E u \in UuidArgs :
          /\ call' = [op |-> "get_dog_by_id", arg |-> u]
          /\ ret' = get_dog_by_id(ps, u)
    /\ panicked' = fetch_panics(ps.ecs, DogQueryKinds)
    /\ UNCHANGED <<ps, created>>

\* for mammal in all_mammals.iter(): the accessors of one Mammal value the
\* gateway returned.
MammalAccessors ==
    /\ ~panicked
    /\ \E m \in LET all == get_all_mammals(ps) IN {all[i] : i \in 1..Len(all)} :
              /\ call' = [op |-> "Mammal::accessors", arg |-> m]
              /\ ret' = [name |-> Mammal_name(m),
                         uuid |-> Mammal_uuid(m),
                         hair_color |-> Mammal_hair_color(m),
                         make_sound |-> make_sound(m),
                         is_dog |-> is_dog(m),
                         is_cat |-> is_cat(m),
                         as_dog |-> as_dog(m),
                         as_cat |-> as_cat(m)]
    /\ panicked' = fetch_panics(ps.ecs, DogQueryKinds \cup CatQueryKinds)
    /\ UNCHANGED <<ps, created>>

Next ==
    \/ DogCreate
    \/ CatCreate
    \/ GetAllDogs
    \/ GetAllCats
    \/ GetAllMammals
    \/ GetMammalsByHairColor
    \/ GetDogById
    \/ MammalAccessors

Spec == Init /\ [][Next]_vars

\* The older program: Dog::new, Cat::new and get_all_dogs only.
LegacyDogNew ==
    /\ ~panicked
    /\ Len(created) < MaxPets
    /\ \E in \in DogInputs :
          LET r == legacy_Dog_new(ps, in)
          IN  /\ ps' = r.ps
              /\ ret' = r.id
              /\ panicked' = r.panic
              /\ call' = [op |-> "Dog::new", arg |-> in]
              /\ created' = Append(created, [kind |-> "Dog", input |-> in, uuid |-> r.id])

LegacyCatNew ==
    /\ ~panicked
    /\ Len(created) < MaxPets
    /\ \E in \in CatInputs :
          LET r == legacy_Cat_new(ps, in)
          IN  /\ ps' = r.ps
              /\ ret' = r.id
              /\ panicked' = r.panic
              /\ call' = [op |-> "Cat::new", arg |-> in]
              /\ created' = Append(created, [kind |-> "Cat", input |-> in, uuid |-> r.id])

LegacyGetAllDogs ==
    /\ ~panicked
    /\ call' = [op |-> "get_all_dogs", arg |-> NoArg]
    /\ panicked' = fetch_panics(ps.ecs, DogQueryKinds)
    /\ ret' = legacy_get_all_dogs(ps)
    /\ UNCHANGED <<ps, created>>

LegacyNext ==
    \/ LegacyDogNew
    \/ LegacyCatNew
    \/ LegacyGetAllDogs

SpecLegacy == Init /\ [][LegacyNext]_vars

----------------------------------------------------------------------------
(* What a caller expects, from the arguments it passed and the strings the *)
(* creation calls returned                                                 *)

\* The record a caller expects for a dog created with input `in`, to which
\* the creation call answered `uuid`.
ExpectedDog(in, uuid) ==
    [pet |-> [uuid |-> uuid, name |-> in.name],
     mammal |-> [hair_color |-> in.hair_color, breed |-> in.breed,
                 has_hair |-> in.has_hair],
     dog_specific |-> [tail_length |-> in.tail_length,
                       num_commands_known |-> in.num_commands_known]]

ExpectedCat(in, uuid) ==
    [pet |-> [uuid |-> uuid, name |-> in.name],
     mammal |-> [hair_color |-> in.hair_color, breed |-> in.breed,
                 has_hair |-> in.has_hair],
     cat_specific |-> [declawed |-> in.declawed,
                       sits_on_keyboard |-> in.sits_on_keyboard]]

IsDogCreation(c) == c.kind = "Dog"
IsCatCreation(c) == c.kind = "Cat"

\* The dog creations, and the cat creations, in the order they were made.
CreatedDogs == SelectSeq(created, IsDogCreation)
CreatedCats == SelectSeq(created, IsCatCreation)

\* The uuids the dog creations returned.
DogUuids == {CreatedDogs[i].uuid : i \in 1..Len(CreatedDogs)}
CatUuids == {CreatedCats[i].uuid : i \in 1..Len(CreatedCats)}

IsDogEntry(m) == m.variant = "Dog"
IsCatEntry(m) == m.variant = "Cat"

----------------------------------------------------------------------------
(* Claims *)

\* C1: round trip for dogs. On a store that was freshly constructed and on
\* which one Dog::create (add_dog) was made, get_all_dogs returns exactly
\* one record, and each of its fields name, hair_color, breed, has_hair,
\* tail_length, num_commands_known equals the argument passed.
C1_DogRoundTrip ==
    (call.op = "get_all_dogs" /\ Len(created) = 1 /\ created[1].kind = "Dog") =>
        /\ Len(ret) = 1
        /\ ret[1].pet.name = created[1].input.name
        /\ ret[1].mammal.hair_color = created[1].input.hair_color
        /\ ret[1].mammal.breed = created[1].input.breed
        /\ ret[1].mammal.has_hair = created[1].input.has_hair
        /\ ret[1].dog_specific.tail_length = created[1].input.tail_length
        /\ ret[1].dog_specific.num_commands_known = created[1].input.num_commands_known

C1_Witness ==
    /\ call.op = "get_all_dogs"
    /\ Len(created) = 1
    /\ created[1].kind = "Dog"
    /\ created[1].input.name = "Waterloo"
    /\ Len(ret) = 1
    /\ ret[1].mammal.breed = "labrador"
    /\ ret[1].dog_specific.tail_length = 120

\* C2: round trip for cats. On a freshly constructed store on which one
\* Cat::create (add_cat) was made, get_all_cats returns exactly one record
\* whose fields name, hair_color, breed, has_hair, declawed,
\* sits_on_keyboard equal the arguments, and the entity holds a Cat
\* component and no Dog component.
C2_CatRoundTrip ==
    (call.op = "get_all_cats" /\ Len(created) = 1 /\ created[1].kind = "Cat") =>
        /\ Len(ret) = 1
        /\ ret[1].pet.name = created[1].input.name
        /\ ret[1].mammal.hair_color = created[1].input.hair_color
        /\ ret[1].mammal.breed = created[1].input.breed
        /\ ret[1].mammal.has_hair = created[1].input.has_hair
        /\ ret[1].cat_specific.declawed = created[1].input.declawed
        /\ ret[1].cat_specific.sits_on_keyboard = created[1].input.sits_on_keyboard
        /\ DOMAIN ps.ecs.storage[CatKind] = {0}
        /\ DOMAIN ps.ecs.storage[DogKind] = {}

C2_Witness ==
    /\ call.op = "get_all_cats"
    /\ Len(created) = 1
    /\ created[1].kind = "Cat"
    /\ created[1].input.name = "Berlioz"
    /\ Len(ret) = 1
    /\ ret[1].cat_specific.declawed
    /\ ~ret[1].cat_specific.sits_on_keyboard

\* C3: in every state, and for the sequence a get_all_mammals call returned,
\* the length of get_all_mammals() is the length of get_all_dogs() plus the
\* length of get_all_cats().
C3_MammalCount ==
    /\ Len(get_all_mammals(ps)) = Len(get_all_dogs(ps)) + Len(get_all_cats(ps))
    /\ call.op = "get_all_mammals" =>
           Len(ret) = Len(get_all_dogs(ps)) + Len(get_all_cats(ps))

C3_Witness ==
    /\ call.op = "get_all_mammals"
    /\ Len(get_all_dogs(ps)) = 1
    /\ Len(get_all_cats(ps)) = 2
    /\ Len(ret) = 3

\* C4: in the sequence get_all_mammals returned, no dog entry follows a cat
\* entry, the dog entries are the created dogs in the order of their
\* creation, and the cat entries are the created cats in the order of
\* their creation.
C4_MammalOrder ==
    call.op = "get_all_mammals" =>
        /\ \A i, j \in 1..Len(ret) : (i < j /\ IsCatEntry(ret[i])) => IsCatEntry(ret[j])
        /\ LET dogEntries == SelectSeq(ret, IsDogEntry)
           IN  /\ Len(dogEntries) = Len(CreatedDogs)
               /\ \A i \in 1..Len(dogEntries) :
                      dogEntries[i].value =
                          ExpectedDog(CreatedDogs[i].input, CreatedDogs[i].uuid)
        /\ LET catEntries == SelectSeq(ret, IsCatEntry)
           IN  /\ Len(catEntries) = Len(CreatedCats)
               /\ \A i \in 1..Len(catEntries) :
                      catEntries[i].value =
                          ExpectedCat(CreatedCats[i].input, CreatedCats[i].uuid)

\* A cat was created first, then two different dogs: the dogs come first,
\* in the order of their creation.
C4_Witness ==
    /\ call.op = "get_all_mammals"
    /\ Len(created) = 3
    /\ created[1].kind = "Cat"
    /\ created[2].kind = "Dog"
    /\ created[3].kind = "Dog"
    /\ created[2].input.name = "Sophie"
    /\ created[3].input.name = "Waterloo"
    /\ ret[1].value.pet.name = "Sophie"
    /\ ret[2].value.pet.name = "Waterloo"
    /\ IsCatEntry(ret[3])

\* C5: the sequence get_all_mammals returned is get_all_dogs() with each
\* element wrapped as Mammal::Dog followed by get_all_cats() with each
\* element wrapped as Mammal::Cat: with d dogs and c cats it has d + c
\* entries, entry i is Mammal::Dog(get_all_dogs()[i]) and entry d + j is
\* Mammal::Cat(get_all_cats()[j]).
C5_MammalConcat ==
    call.op = "get_all_mammals" =>
        LET dogs == get_all_dogs(ps)
            cats == get_all_cats(ps)
        IN  /\ Len(ret) = Len(dogs) + Len(cats)
            /\ \A i \in 1..Len(dogs) :
                   ret[i] = [variant |-> "Dog", value |-> dogs[i]]
            /\ \A j \in 1..Len(cats) :
                   ret[Len(dogs) + j] = [variant |-> "Cat", value |-> cats[j]]

\* Dog, cat, dog created in this order: the cat is the third entry.
C5_Witness ==
    /\ call.op = "get_all_mammals"
    /\ Len(created) = 3
    /\ created[1].kind = "Dog"
    /\ created[2].kind = "Cat"
    /\ created[3].kind = "Dog"
    /\ created[2].input.name = "Berlioz"
    /\ Len(ret) = 3
    /\ IsCatEntry(ret[3])
    /\ ret[3].value.pet.name = "Berlioz"

\* C6: the sequence get_mammals_by_hair_color(c) returned holds exactly the
\* entries of get_all_mammals() whose hair_color is the very string c, in
\* the order they have there; an entry whose hair_color differs from c,
\* be it by letter case only, is not returned.
C6_HairColorFilter ==
    call.op = "get_mammals_by_hair_color" =>
        LET all == get_all_mammals(ps)
            at == Ascending({i \in 1..Len(all) : all[i].value.mammal.hair_color = call.arg})
        IN  /\ Len(ret) = Len(at)
            /\ \A k \in 1..Len(at) : ret[k] = all[at[k]]
            /\ \A k \in 1..Len(ret) : ret[k].value.mammal.hair_color = call.arg

\* "Blond" is asked for; a "Blond" cat, a "blond" dog and a "Blond" dog are
\* stored: the dog "Sophie" and the cat "Mittens" are returned, in this
\* order, though the cat was created first.
C6_Witness ==
    /\ call.op = "get_mammals_by_hair_color"
    /\ call.arg = "Blond"
    /\ Len(created) = 3
    /\ created[1].input.name = "Mittens"
    /\ created[2].input.name = "Waterloo"
    /\ created[3].input.name = "Sophie"
    /\ Len(ret) = 2
    /\ ret[1].value.pet.name = "Sophie"
    /\ ret[2].value.pet.name = "Mittens"

\* C7: get_dog_by_id(u) returned Some exactly when a dog creation answered
\* the string u, and the record returned is a record get_all_dogs() holds
\* with uuid u; the decimal form of an entity index is no match.
C7_DogByIdFound ==
    call.op = "get_dog_by_id" =>
        LET dogs == get_all_dogs(ps)
        IN  /\ (ret.tag = "Some") <=> (call.arg \in DogUuids)
            /\ ret.tag = "Some" =>
                   \E i \in 1..Len(dogs) :
                       /\ dogs[i].pet.uuid = call.arg
                       /\ ret.value = dogs[i]
            /\ (call.arg = "0" /\ Len(dogs) > 0) => ret.tag = "None"

\* The dog asked for was created second, after a dog with another uuid.
C7_Witness ==
    /\ call.op = "get_dog_by_id"
    /\ Len(created) = 2
    /\ created[1].kind = "Dog"
    /\ created[2].kind = "Dog"
    /\ created[1].uuid # created[2].uuid
    /\ call.arg = created[2].uuid
    /\ ret.tag = "Some"
    /\ ret.value = ExpectedDog(created[2].input, created[2].uuid)

\* C8: a get_dog_by_id(u) call with u the uuid of no stored dog returns
\* None, does not panic and leaves the store as it was; so on the empty
\* store, for a string no creation returned, and for the uuid a Cat::create
\* returned (and no Dog::create).
C8_DogByIdNotFound ==
    [][(call'.op = "get_dog_by_id" /\ call'.arg \notin DogUuids) =>
           /\ ret' = [tag |-> "None"]
           /\ ~panicked'
           /\ ps' = ps]_vars

\* The uuid asked for is the uuid of the cat, and a dog is stored.
C8_Witness ==
    /\ call.op = "get_dog_by_id"
    /\ Len(CreatedDogs) = 1
    /\ Len(CreatedCats) = 1
    /\ call.arg \in CatUuids
    /\ call.arg \notin DogUuids
    /\ ret.tag = "None"
    /\ ~panicked

\* C9: any two creation calls returned different uuids, and no uuid occurs
\* twice in what get_all_dogs returns, whatever the field values.
C9_UniqueUuids ==
    /\ \A i, j \in 1..Len(created) : i # j => created[i].uuid # created[j].uuid
    /\ call.op = "get_all_dogs" =>
           \A i, j \in 1..Len(ret) : i # j => ret[i].uuid # ret[j].uuid

\* C10: Dog::create and Cat::create return the uuid of the record they
\* added: after the call get_all_dogs() (get_all_cats()) is what it was
\* before with one record appended, made of the arguments and of the string
\* returned, the other list is what it was, and Mammal::uuid of the entry
\* get_all_mammals() has at that place is the string returned.
C10_CreateReturnsUuid ==
    [][/\ call'.op = "Dog::create" =>
              /\ get_all_dogs(ps') = Append(get_all_dogs(ps), ExpectedDog(call'.arg, ret'))
              /\ get_all_cats(ps') = get_all_cats(ps)
              /\ Mammal_uuid(get_all_mammals(ps')[Len(get_all_dogs(ps'))]) = ret'
       /\ call'.op = "Cat::create" =>
              /\ get_all_cats(ps') = Append(get_all_cats(ps), ExpectedCat(call'.arg, ret'))
              /\ get_all_dogs(ps') = get_all_dogs(ps)
              /\ Mammal_uuid(get_all_mammals(ps')[Len(get_all_mammals(ps'))]) = ret']_vars

\* A second dog was just created next to a dog with another uuid.
C10_Witness ==
    /\ call.op = "Dog::create"
    /\ Len(created) = 2
    /\ created[1].kind = "Dog"
    /\ created[1].uuid # ret
    /\ Len(get_all_dogs(ps)) = 2
    /\ get_all_dogs(ps)[2].pet.uuid = ret
    /\ get_all_dogs(ps)[1].pet.uuid # ret

\* The entities that hold a component of the kind.
Holders(kind) == DOMAIN ps.ecs.storage[kind]

\* The calls that read the store.
QueryOps ==
    {"get_all_dogs", "get_all_cats", "get_all_mammals",
     "get_mammals_by_hair_color", "get_dog_by_id"}

\* C11: in every reachable state of the store every entity that holds a
\* DogComponent or a CatComponent holds a PetComponent and a
\* MammalComponent (a table holds at most one component per entity).
C11_FullTriple ==
    \A e \in Holders(DogKind) \cup Holders(CatKind) :
        e \in Holders(PetKind) /\ e \in Holders(MammalKind)

\* A dog and a cat are stored and a query has run.
C11_Witness ==
    /\ call.op \in QueryOps
    /\ Holders(DogKind) # {}
    /\ Holders(CatKind) # {}
    /\ Holders(DogKind) \cup Holders(CatKind) = Holders(PetKind)

\* C12: creation is one step for every query: in every state a query can
\* run in, and in every state a query has run in, each entity that was
\* allocated or holds any component holds all three of its components, a
\* PetComponent, a MammalComponent and a DogComponent or CatComponent.
C12_NoPartialEntity ==
    LET touched == (0..(ps.ecs.next - 1)) \cup Holders(PetKind) \cup Holders(MammalKind)
                       \cup Holders(DogKind) \cup Holders(CatKind)
    IN  \A e \in touched :
            /\ e \in Holders(PetKind)
            /\ e \in Holders(MammalKind)
            /\ e \in Holders(DogKind) \cup Holders(CatKind)

\* A query ran right after the second creation.
C12_Witness ==
    /\ call.op = "get_mammals_by_hair_color"
    /\ ps.ecs.next = 2
    /\ Holders(PetKind) = {0, 1}
    /\ Holders(MammalKind) = {0, 1}
    /\ Holders(CatKind) = {1}
    /\ Len(ret) = 2

\* C13: for every Mammal value the accessors were applied to, exactly one
\* of is_dog() and is_cat() is true, as_dog() is Some exactly when is_dog()
\* is true, as_cat() is Some exactly when is_cat() is true, and the value
\* inside is the record the Mammal wraps.
C13_VariantPredicates ==
    call.op = "Mammal::accessors" =>
        /\ ret.is_dog # ret.is_cat
        /\ (ret.as_dog.tag = "Some") <=> ret.is_dog
        /\ (ret.as_cat.tag = "Some") <=> ret.is_cat
        /\ ret.as_dog.tag = "Some" => ret.as_dog.value = call.arg.value
        /\ ret.as_cat.tag = "Some" => ret.as_cat.value = call.arg.value

\* The accessors of a cat, with a dog stored as well.
C13_Witness ==
    /\ call.op = "Mammal::accessors"
    /\ Len(CreatedDogs) = 1
    /\ call.arg.variant = "Cat"
    /\ ret.is_cat
    /\ ~ret.is_dog
    /\ ret.as_dog = [tag |-> "None"]
    /\ ret.as_cat = [tag |-> "Some", value |-> call.arg.value]

\* C14: make_sound() is "Woof!" for every Mammal::Dog and "Meow!" for
\* every Mammal::Cat, whatever the fields; in get_all_mammals() the entries
\* up to the number of dogs say "Woof!" and the entries after them "Meow!".
C14_MakeSound ==
    /\ call.op = "Mammal::accessors" =>
           ret.make_sound = (IF call.arg.variant = "Dog" THEN "Woof!" ELSE "Meow!")
    /\ LET all == get_all_mammals(ps)
           d == Len(get_all_dogs(ps))
       IN  \A i \in 1..Len(all) :
               make_sound(all[i]) = (IF i <= d THEN "Woof!" ELSE "Meow!")

\* The cat "Mittens" was created before two dogs and says "Meow!".
C14_Witness ==
    /\ call.op = "Mammal::accessors"
    /\ Len(created) = 3
    /\ created[1].kind = "Cat"
    /\ Len(CreatedDogs) = 2
    /\ ret.name = "Mittens"
    /\ ret.make_sound = "Meow!"
    /\ make_sound(get_all_mammals(ps)[1]) = "Woof!"
    /\ make_sound(get_all_mammals(ps)[3]) = "Meow!"

\* C15: no query fails, and a query on missing data returns the empty
\* sequence: get_all_dogs when no dog was created (cats or not),
\* get_all_cats when no cat was created, get_all_mammals and
\* get_mammals_by_hair_color(c) when nothing was created.
C15_EmptyResults ==
    /\ call.op \in QueryOps => ~panicked
    /\ (call.op = "get_all_dogs" /\ Len(CreatedDogs) = 0) => ret = <<>>
    /\ (call.op = "get_all_cats" /\ Len(CreatedCats) = 0) => ret = <<>>
    /\ (call.op \in {"get_all_mammals", "get_mammals_by_hair_color"}
            /\ Len(created) = 0) => ret = <<>>

\* Two cats and no dog are stored: get_all_dogs returned nothing.
C15_Witness ==
    /\ call.op = "get_all_dogs"
    /\ Len(CreatedCats) = 2
    /\ Len(CreatedDogs) = 0
    /\ Len(get_all_cats(ps)) = 2
    /\ ret = <<>>
    /\ ~panicked

\* The entities the join of get_all_dogs (get_all_cats) is about.
DogEntities == (Holders(PetKind) \cap Holders(MammalKind)) \cap Holders(DogKind)
CatEntities == (Holders(PetKind) \cap Holders(MammalKind)) \cap Holders(CatKind)

\* The record a caller expects for the entity, from its three components.
StoredDog(e) ==
    [pet |-> [uuid |-> ps.ecs.storage[PetKind][e].uuid,
              name |-> ps.ecs.storage[PetKind][e].name],
     mammal |-> [hair_color |-> ps.ecs.storage[MammalKind][e].hair_color,
                 breed |-> ps.ecs.storage[MammalKind][e].breed,
                 has_hair |-> ps.ecs.storage[MammalKind][e].has_hair],
     dog_specific |-> [tail_length |-> ps.ecs.storage[DogKind][e].tail_length,
                       num_commands_known |->
                           ps.ecs.storage[DogKind][e].num_commands_known]]

StoredCat(e) ==
    [pet |-> [uuid |-> ps.ecs.storage[PetKind][e].uuid,
              name |-> ps.ecs.storage[PetKind][e].name],
     mammal |-> [hair_color |-> ps.ecs.storage[MammalKind][e].hair_color,
                 breed |-> ps.ecs.storage[MammalKind][e].breed,
                 has_hair |-> ps.ecs.storage[MammalKind][e].has_hair],
     cat_specific |-> [declawed |-> ps.ecs.storage[CatKind][e].declawed,
                       sits_on_keyboard |->
                           ps.ecs.storage[CatKind][e].sits_on_keyboard]]

\* How often the record occurs in the sequence.
Occurrences(seq, r) == Cardinality({i \in 1..Len(seq) : seq[i] = r})

\* C16: get_all_dogs returned one record for each entity that holds a
\* PetComponent, a MammalComponent and a DogComponent and nothing else (as
\* many records as such entities, each entity's record as often as there
\* are such entities with that record), and these are the created dogs,
\* none missing, none twice, no cat among them; get_all_cats likewise.
C16_InnerJoin ==
    /\ call.op = "get_all_dogs" =>
           /\ Len(ret) = Cardinality(DogEntities)
           /\ \A e \in DogEntities :
                  Occurrences(ret, StoredDog(e)) =
                      Cardinality({f \in DogEntities : StoredDog(f) = StoredDog(e)})
           /\ Len(ret) = Len(CreatedDogs)
           /\ \A i \in 1..Len(ret) :
                  ret[i] = ExpectedDog(CreatedDogs[i].input, CreatedDogs[i].uuid)
    /\ call.op = "get_all_cats" =>
           /\ Len(ret) = Cardinality(CatEntities)
           /\ \A e \in CatEntities :
                  Occurrences(ret, StoredCat(e)) =
                      Cardinality({f \in CatEntities : StoredCat(f) = StoredCat(e)})
           /\ Len(ret) = Len(CreatedCats)
           /\ \A i \in 1..Len(ret) :
                  ret[i] = ExpectedCat(CreatedCats[i].input, CreatedCats[i].uuid)

\* Dog, cat, dog were created: get_all_dogs returned the two dogs.
C16_Witness ==
    /\ call.op = "get_all_dogs"
    /\ DogEntities = {0, 2}
    /\ CatEntities = {1}
    /\ Len(ret) = 2
    /\ ret[1] = StoredDog(0)
    /\ ret[2] = StoredDog(2)

\* C17: every creation allocates an entity that held no component before,
\* and leaves the earlier entities in the tables; so there are as many
\* entities with a PetComponent as creations, also when two creations had
\* the same arguments and drew the same uuid.
C17_FreshEntity ==
    [][call'.op \in {"Dog::create", "Cat::create"} =>
           LET old == DOMAIN ps.ecs.storage[PetKind] \cup DOMAIN ps.ecs.storage[MammalKind]
                          \cup DOMAIN ps.ecs.storage[DogKind]
                          \cup DOMAIN ps.ecs.storage[CatKind]
               new == DOMAIN ps'.ecs.storage[PetKind]
           IN  /\ old \subseteq new
               /\ Cardinality(new \ old) = 1
               /\ Cardinality(new) = Len(created')]_vars

\* Three creations with the same arguments and the same uuid made three
\* entities.
C17_Witness ==
    /\ Len(created) = 3
    /\ created[1] = created[2]
    /\ created[2] = created[3]
    /\ Holders(PetKind) = {0, 1, 2}
    /\ Holders(DogKind) = {0, 1, 2}
    /\ ps.ecs.next = 3

\* C20: no call panics on an unregistered kind: the store of new() (and of
\* default()) has a table for PetComponent, MammalComponent, DogComponent,
\* CatComponent, ReptileComponent, TurtleComponent and SnakeComponent from
\* the first state on, and no creation or query has panicked.
C20_AllKindsRegistered ==
    /\ {PetKind, MammalKind, DogKind, CatKind, ReptileKind, TurtleKind, SnakeKind}
           \subseteq DOMAIN ps.ecs.storage
    /\ ~panicked

\* Every creation and a query over all four tables have run.
C20_Witness ==
    /\ call.op = "get_all_mammals"
    /\ Len(CreatedDogs) = 1
    /\ Len(CreatedCats) = 2
    /\ Len(ret) = 3
    /\ ~panicked

\* C21: the store is append-only. In every step, whatever the call, the
\* list get_all_dogs() yields before the step is a prefix of the list it
\* yields after it, with the same record at each index, and so for
\* get_all_cats(); and what a get_all_dogs (get_all_cats) call returns is
\* that list. Hence a record once returned is at the same index, with the
\* same field values, in the result of every later call.
C21_AppendOnly ==
    [][LET d0 == get_all_dogs(ps)
           d1 == get_all_dogs(ps')
           c0 == get_all_cats(ps)
           c1 == get_all_cats(ps')
       IN  /\ Len(d0) <= Len(d1)
           /\ \A i \in 1..Len(d0) : d1[i] = d0[i]
           /\ Len(c0) <= Len(c1)
           /\ \A i \in 1..Len(c0) : c1[i] = c0[i]
           /\ call'.op = "get_all_dogs" => ret' = d1
           /\ call'.op = "get_all_cats" => ret' = c1]_vars

\* get_all_dogs ran after a dog, a cat and another dog were created: the
\* first dog is still the first record, with the values it was created with.
C21_Witness ==
    /\ call.op = "get_all_dogs"
    /\ Len(created) = 3
    /\ created[1].kind = "Dog"
    /\ created[2].kind = "Cat"
    /\ created[3].kind = "Dog"
    /\ created[1].input.name # created[3].input.name
    /\ Len(ret) = 2
    /\ ret[1] = ExpectedDog(created[1].input, created[1].uuid)
    /\ ret[2] = ExpectedDog(created[3].input, created[3].uuid)

\* C22: get_dog_by_id(u) returns the first match in join order: when it
\* returned Some, the record is the first element of get_all_dogs() whose
\* uuid is u, which is the earliest created dog that was given u, also when
\* several stored dogs carry u.
C22_FirstMatch ==
    (call.op = "get_dog_by_id" /\ ret.tag = "Some") =>
        LET dogs == get_all_dogs(ps)
            matches == {i \in 1..Len(dogs) : dogs[i].pet.uuid = call.arg}
            made == {i \in 1..Len(CreatedDogs) : CreatedDogs[i].uuid = call.arg}
        IN  /\ matches # {}
            /\ made # {}
            /\ \E k \in matches :
                   /\ \A j \in matches : k <= j
                   /\ ret.value = dogs[k]
            /\ \E k \in made :
                   /\ \A j \in made : k <= j
                   /\ ret.value = ExpectedDog(CreatedDogs[k].input, CreatedDogs[k].uuid)

\* Two dogs that differ in every other field were given the same uuid, a
\* cat was created between them: the dog created first is returned.
C22_Witness ==
    /\ call.op = "get_dog_by_id"
    /\ Len(created) = 3
    /\ created[1].kind = "Dog"
    /\ created[2].kind = "Cat"
    /\ created[3].kind = "Dog"
    /\ created[1].input.name = "Sophie"
    /\ created[3].input.name = "Waterloo"
    /\ created[1].uuid = created[3].uuid
    /\ call.arg = created[1].uuid
    /\ ret.tag = "Some"
    /\ ret.value.pet.name = "Sophie"
    /\ ret.value.dog_specific.tail_length = 20

\* The component kinds the gateway registers.
AllKinds == {PetKind, MammalKind, ReptileKind, DogKind, CatKind, TurtleKind, SnakeKind}

\* C23: frame of creation. A Dog::create (add_dog) step leaves
\* get_all_cats() as it was and a Cat::create (add_cat) step leaves
\* get_all_dogs() as it was; in both, every component an entity held before
\* the step is held unchanged after it, and the components added are those
\* of the one entity the step allocated.
C23_CreationFrame ==
    [][call'.op \in {"Dog::create", "Cat::create"} =>
           /\ call'.op = "Dog::create" => get_all_cats(ps') = get_all_cats(ps)
           /\ call'.op = "Cat::create" => get_all_dogs(ps') = get_all_dogs(ps)
           /\ DOMAIN ps'.ecs.storage = DOMAIN ps.ecs.storage
           /\ \A k \in DOMAIN ps.ecs.storage :
                  /\ \A e \in DOMAIN ps.ecs.storage[k] :
                         /\ e \in DOMAIN ps'.ecs.storage[k]
                         /\ ps'.ecs.storage[k][e] = ps.ecs.storage[k][e]
                  /\ DOMAIN ps'.ecs.storage[k] \ DOMAIN ps.ecs.storage[k]
                         \subseteq {ps.ecs.next}]_vars

\* A cat was just created after two dogs: both dogs are as they were made.
C23_Witness ==
    /\ call.op = "Cat::create"
    /\ Len(created) = 3
    /\ created[1].kind = "Dog"
    /\ created[2].kind = "Dog"
    /\ Len(get_all_cats(ps)) = 1
    /\ get_all_dogs(ps) =
           <<ExpectedDog(created[1].input, created[1].uuid),
             ExpectedDog(created[2].input, created[2].uuid)>>
    /\ Holders(CatKind) = {2}

\* C24: queries are read-only. A step that is a call of get_all_dogs,
\* get_all_cats, get_all_mammals, get_mammals_by_hair_color or
\* get_dog_by_id leaves the entity allocator, the set of registered kinds
\* and every component table as they were, whether it returned records,
\* the empty sequence or None.
C24_QueriesReadOnly ==
    [][call'.op \in QueryOps =>
           /\ ps'.ecs.next = ps.ecs.next
           /\ DOMAIN ps'.ecs.storage = AllKinds
           /\ \A k \in AllKinds : ps'.ecs.storage[k] = ps.ecs.storage[k]]_vars

\* get_mammals_by_hair_color("golden") returned nothing on a store of two
\* dogs and a cat, which are all still there.
C24_Witness ==
    /\ call.op = "get_mammals_by_hair_color"
    /\ call.arg = "golden"
    /\ ret = <<>>
    /\ Len(CreatedDogs) = 2
    /\ Len(CreatedCats) = 1
    /\ ps.ecs.next = 3
    /\ Holders(PetKind) = {0, 1, 2}
    /\ Cardinality(Holders(DogKind)) = 2
    /\ Cardinality(Holders(CatKind)) = 1

\* C25: each creation adds exactly one record. A Dog::create (add_dog) step
\* makes get_all_dogs() longer by exactly 1 and leaves the length of
\* get_all_cats(), a Cat::create (add_cat) step makes get_all_cats() longer
\* by exactly 1 and leaves the length of get_all_dogs(); so after n dog
\* creations and m cat creations in any order get_all_dogs() has n
\* entries, get_all_cats() m and get_all_mammals() n + m.
C25_OneRecordPerCreation ==
    [][LET n0 == Len(get_all_dogs(ps))
           m0 == Len(get_all_cats(ps))
           n1 == Len(get_all_dogs(ps'))
           m1 == Len(get_all_cats(ps'))
       IN  /\ call'.op = "Dog::create" /\ created' # created =>
                  n1 = n0 + 1 /\ m1 = m0
           /\ call'.op = "Cat::create" /\ created' # created =>
                  m1 = m0 + 1 /\ n1 = n0
           /\ n1 = Cardinality({i \in 1..Len(created') : created'[i].kind = "Dog"})
           /\ m1 = Cardinality({i \in 1..Len(created') : created'[i].kind = "Cat"})
           /\ Len(get_all_mammals(ps')) = Len(created')]_vars

\* Cat, dog, cat were created, the last with the arguments and the uuid of
\* the first: two cats, one dog, three mammals.
C25_Witness ==
    /\ call.op = "Cat::create"
    /\ Len(created) = 3
    /\ created[1].kind = "Cat"
    /\ created[2].kind = "Dog"
    /\ created[3] = created[1]
    /\ Len(get_all_dogs(ps)) = 1
    /\ Len(get_all_cats(ps)) = 2
    /\ Len(get_all_mammals(ps)) = 3

\* C26: subtype exclusivity. In every reachable state no entity holds both
\* a DogComponent and a CatComponent, every allocated entity holds exactly
\* one of the two, and the registered tables of ReptileComponent,
\* TurtleComponent and SnakeComponent are empty.
C26_SubtypeExclusive ==
    /\ Holders(DogKind) \cap Holders(CatKind) = {}
    /\ \A e \in 0..(ps.ecs.next - 1) :
           (e \in Holders(DogKind)) # (e \in Holders(CatKind))
    /\ Holders(DogKind) \cup Holders(CatKind) = 0..(ps.ecs.next - 1)
    /\ \A k \in {ReptileKind, TurtleKind, SnakeKind} :
           k \in DOMAIN ps.ecs.storage /\ Holders(k) = {}

\* Cat, dog, cat were created and all the queries may have run: the dog is
\* entity 1 alone, and nothing is a reptile.
C26_Witness ==
    /\ ps.ecs.next = 3
    /\ Holders(CatKind) = {0, 2}
    /\ Holders(DogKind) = {1}
    /\ Holders(ReptileKind) = {}
    /\ Holders(TurtleKind) = {}
    /\ Holders(SnakeKind) = {}
    /\ call.op = "get_all_mammals"

====
